---------------------------- MODULE Spec2Model ----------------------------
(***************************************************************************)
(* Model of src/read_cdc.c: the frame synchronizer of the V2S200D          *)
(* vibration-sensor reader.  main() reads 32-bit words from a tty into a   *)
(* frame buffer, looks for USB_SOF at buffer index 0 and for USB_EOF at    *)
(* the last word written by each read, and prints one CSV row per payload  *)
(* word of every accepted frame.  handle_signal() may run between any two  *)
(* statements of main().                                                   *)
(*                                                                         *)
(* Scale.  The source's frame has FRAME_TOTAL_INTS = 1253 words, 1250 of   *)
(* them payload.  The model keeps the frame layout (SOF, timestamp,        *)
(* payload, EOF) and every index computation of the source, and takes the  *)
(* number of payload words from the bound NData; where a claim speaks of   *)
(* 1253, 1250 and 80 the formulas speak of FRAME_TOTAL_INTS, NData and     *)
(* Step, and SampleStep(1253) = 80 ties Step to the source's figures.      *)
(*                                                                         *)
(* Widths.  Buffer words are int32_t values.  uint32_t values are pairs    *)
(* and uint64_t values are 4-tuples of 16-bit limbs, least significant     *)
(* first, so that the 32-bit and 64-bit arithmetic of the source is        *)
(* computed at its own width.                                              *)
(*                                                                         *)
(* Granularity.  One action per statement of main() that a signal can      *)
(* separate from the next in a way the sink can tell; a library call is    *)
(* one step.  One loop iteration up to its `continue' (or up to the first  *)
(* fprintf of an accepted frame) is the action Read.                       *)
(***************************************************************************)
EXTENDS Integers, Sequences, FiniteSets, TLC

(***************************************************************************)
(* Bounds of the model.                                                    *)
(***************************************************************************)
\* payload words per frame in the model (the source has 1250)
NData == 2
\* the input stream is a concatenation of at most this many segments
MaxSegments == 2

(***************************************************************************)
(* Constants of the program.                                               *)
(***************************************************************************)
USB_SOF == 1431655765
\* 0xAAAAAAAA converted to int32_t, as line 170 compares it
USB_EOF == -1431655766
FRAME_INTERVAL == 100
SIGINT == 2
SIGTERM == 15
EXIT_FAILURE == 1

FRAME_TOTAL_INTS == NData + 3

\* uint32_t and uint64_t values are held in 16-bit limbs
Limb == 2^16

(***************************************************************************)
(* Fixed-width arithmetic.                                                 *)
(***************************************************************************)
\* C's integer division truncates toward zero
CDiv(a, b) == IF a >= 0 THEN a \div b ELSE -((-a) \div b)

\* (uint32_t)w for an int32_t w: the same 32 bits, as two 16-bit limbs <<lo, hi>>
ToU32(w) ==
    IF w >= 0 THEN <<w % Limb, w \div Limb>>
    ELSE LET v == (w + 2147483647) + 1 IN <<v % Limb, (v \div Limb) + 32768>>

\* a - b in uint32_t arithmetic (wraps modulo 2^32)
SubU32(a, b) ==
    LET lo == a[1] - b[1]
        borrow == IF lo < 0 THEN 1 ELSE 0
        hi == a[2] - b[2] - borrow
    IN <<lo % Limb, hi % Limb>>

U32Zero == <<0, 0>>
U32Of(k) == <<k % Limb, (k \div Limb) % Limb>>

\* t * 1000 as a mathematical product, in 64 bits
MulExact(t, m) ==
    LET p0 == t[1] * m
        p1 == t[2] * m + (p0 \div Limb)
    IN <<p0 % Limb, p1 % Limb, p1 \div Limb, 0>>

\* t * 1000 in uint32_t arithmetic, then widened to uint64_t
MulU32(t, m) ==
    LET p == MulExact(t, m) IN <<p[1], p[2], 0, 0>>

\* x + c in uint64_t arithmetic, c a small natural number
AddU64(x, c) ==
    LET s0 == x[1] + c
        s1 == x[2] + (s0 \div Limb)
        s2 == x[3] + (s1 \div Limb)
        s3 == x[4] + (s2 \div Limb)
    IN <<s0 % Limb, s1 % Limb, s2 % Limb, s3 % Limb>>

\* line 205: (FRAME_INTERVAL * 1000) / (FRAME_TOTAL_INTS - 3), in int arithmetic
SampleStep(total) == CDiv(FRAME_INTERVAL * 1000, total - 3)
Step == SampleStep(FRAME_TOTAL_INTS)

(***************************************************************************)
(* The input: what the tty will deliver, as int32_t words.                 *)
(***************************************************************************)
Timestamps == {0, 50, 100, 200, -50, 4294968}

\* payload word j of the model's well-formed frame with timestamp word t
Payload(t, j) == IF j % 2 = 0 THEN -((t % 1000) + j) ELSE (t % 1000) + j

Frame(t) == <<USB_SOF, t>> \o [j \in 1..NData |-> Payload(t, j)] \o <<USB_EOF>>
\* one payload word short: EOF arrives at index FRAME_TOTAL_INTS - 2
ShortFrame == <<USB_SOF, 100>> \o [j \in 1..(NData - 1) |-> 20 + j] \o <<USB_EOF>>
\* a full-length frame whose payload holds sentinel values
SentinelFrame ==
    <<USB_SOF, 100>> \o [j \in 1..NData |-> IF j % 2 = 1 THEN USB_EOF ELSE USB_SOF]
        \o <<USB_EOF>>
\* SOF followed by FRAME_TOTAL_INTS words, none of them EOF
OverrunRun == <<USB_SOF>> \o [j \in 1..FRAME_TOTAL_INTS |-> 7]

Segments ==
    {<<7>>, <<USB_EOF>>} \cup {Frame(t) : t \in Timestamps}
        \cup {ShortFrame, SentinelFrame, OverrunRun}

RECURSIVE StreamsOf(_)
StreamsOf(k) ==
    IF k = 0 THEN {<<>>}
    ELSE LET prev == StreamsOf(k - 1)
         IN prev \cup {s \o g : s \in prev, g \in Segments}

Streams == StreamsOf(MaxSegments)

(***************************************************************************)
(* State.                                                                  *)
(***************************************************************************)
VARIABLES
    pc,                    \* where main() is
    input,                 \* the words the tty delivers, in order
    pos,                   \* how many of them read() has delivered
    rd,                    \* what the last read() returned (bytes, or -1)
    frame_buff,            \* the calloc'ed buffer, indices 0..FRAME_TOTAL_INTS-1
    read_ptr,              \* read_ptr - frame_buff
    state,                 \* STATE_t
    last_frame_timestamp,  \* the static uint32_t of line 189
    data_timestamp,        \* the uint64_t of line 201
    i,                     \* the loop index of line 202
    fcsv,                  \* the global FILE pointer: "NULL" or "FILE"
    sink,                  \* the FILE it names: "unopened", "open", "closed"
    dirty,                 \* stdio holds output not yet written to the file
    csv_header,            \* the header line was printed
    csv,                   \* the data rows printed, in order
    stderr_log,            \* the diagnostics printed, in order
    tty,                   \* the device: "unopened", "open", "closed"
    heap,                  \* frame_buff: "none", "alloc", "freed"
    fcloses,               \* fclose() calls made on the sink
    sig,                   \* the signal delivered, 0 when none
    exit_status            \* -1 while the process runs

vars == <<pc, input, pos, rd, frame_buff, read_ptr, state, last_frame_timestamp,
          data_timestamp, i, fcsv, sink, dirty, csv_header, csv, stderr_log,
          tty, heap, fcloses, sig, exit_status>>

loopVars == <<rd, pos, frame_buff, read_ptr, state, last_frame_timestamp,
              data_timestamp, i>>

U64Zero == <<0, 0, 0, 0>>
ZeroBuff == [j \in 0..(FRAME_TOTAL_INTS - 1) |-> 0]

Init ==
    /\ pc = "set_tty"
    /\ input \in Streams
    /\ pos = 0
    /\ rd = 0
    /\ frame_buff = ZeroBuff
    /\ read_ptr = 0
    /\ state = "FIND_SOF"
    /\ last_frame_timestamp = U32Zero
    /\ data_timestamp = U64Zero
    /\ i = 0
    /\ fcsv = "NULL"
    /\ sink = "unopened"
    /\ dirty = FALSE
    /\ csv_header = FALSE
    /\ csv = <<>>
    /\ stderr_log = <<>>
    /\ tty = "unopened"
    /\ heap = "none"
    /\ fcloses = 0
    /\ sig = 0
    /\ exit_status = -1

(***************************************************************************)
(* exit(): flushes and closes every stream still open, ends the process.   *)
(***************************************************************************)
Exit(status, sinkNow) ==
    /\ sink' = IF sinkNow = "open" THEN "closed" ELSE sinkNow
    /\ dirty' = FALSE
    /\ pc' = "exited"
    /\ exit_status' = status

(***************************************************************************)
(* Setup, lines 108-141.                                                   *)
(***************************************************************************)
SetTty ==
    /\ pc = "set_tty"
    /\ \E ok \in BOOLEAN :
         IF ok
         THEN /\ tty' = "open"
              /\ pc' = "fopen"
              /\ UNCHANGED <<stderr_log, sink, dirty, exit_status>>
         ELSE /\ stderr_log' = stderr_log \o <<"tty_fail">>
              /\ Exit(EXIT_FAILURE, sink)
              /\ UNCHANGED tty
    /\ UNCHANGED <<loopVars, input, fcsv, csv_header, csv, heap, fcloses, sig>>

\* the call of line 115: fopen() has returned, fcsv is not yet assigned
SetOutputFile ==
    /\ pc = "fopen"
    /\ \E ok \in BOOLEAN : sink' = IF ok THEN "open" ELSE "unopened"
    /\ pc' = "store_fcsv"
    /\ UNCHANGED <<loopVars, input, fcsv, dirty, csv_header, csv, stderr_log, tty,
                   heap, fcloses, sig, exit_status>>

\* the assignment of line 115 and the test of lines 116-121
StoreFcsv ==
    /\ pc = "store_fcsv"
    /\ IF sink = "open"
       THEN /\ fcsv' = "FILE"
            /\ pc' = "calloc"
            /\ UNCHANGED <<stderr_log, tty, sink, dirty, exit_status>>
       ELSE /\ fcsv' = "NULL"
            /\ stderr_log' = stderr_log \o <<"file_fail">>
            /\ tty' = "closed"
            /\ Exit(EXIT_FAILURE, sink)
    /\ UNCHANGED <<loopVars, input, csv_header, csv, heap, fcloses, sig>>

\* lines 129-139
Calloc ==
    /\ pc = "calloc"
    /\ \E ok \in BOOLEAN :
         IF ok
         THEN /\ heap' = "alloc"
              /\ frame_buff' = ZeroBuff
              /\ state' = "FIND_SOF"
              /\ read_ptr' = 0
              /\ pc' = "header"
              /\ UNCHANGED <<stderr_log, tty>>
         ELSE /\ stderr_log' = stderr_log \o <<"alloc_fail">>
              /\ tty' = "closed"
              /\ pc' = "fail_fclose"
              /\ UNCHANGED <<heap, frame_buff, state, read_ptr>>
    /\ UNCHANGED <<input, pos, rd, last_frame_timestamp, data_timestamp, i, fcsv,
                   sink, dirty, csv_header, csv, fcloses, sig, exit_status>>

\* line 141
Header ==
    /\ pc = "header"
    /\ csv_header' = TRUE
    /\ dirty' = TRUE
    /\ pc' = "read"
    /\ UNCHANGED <<loopVars, input, fcsv, sink, csv, stderr_log, tty, heap,
                   fcloses, sig, exit_status>>

\* lines 134 and 151, first half: if (fcsv) fclose(fcsv)
MainFclose ==
    /\ pc = "fail_fclose"
    /\ IF fcsv # "NULL"
       THEN /\ sink' = "closed"
            /\ dirty' = FALSE
            /\ fcloses' = fcloses + 1
       ELSE UNCHANGED <<sink, dirty, fcloses>>
    /\ pc' = "fail_null"
    /\ UNCHANGED <<loopVars, input, fcsv, csv_header, csv, stderr_log, tty, heap,
                   sig, exit_status>>

\* lines 134-135 and 151-152, second half: fcsv = NULL; return EXIT_FAILURE
MainNull ==
    /\ pc = "fail_null"
    /\ fcsv' = "NULL"
    /\ Exit(EXIT_FAILURE, sink)
    /\ UNCHANGED <<loopVars, input, csv_header, csv, stderr_log, tty, heap,
                   fcloses, sig>>

(***************************************************************************)
(* The processing loop, lines 142-212.                                     *)
(***************************************************************************)
\* a buffer read; every index the loop uses lies in the buffer (BufferBounds)
At(buf, j) == IF j \in DOMAIN buf THEN buf[j] ELSE 0

\* read() asked for one word more than the buffer has left
ReadReturns_OneMore(cap, avail) ==
    {-1} \cup {4 * k : k \in 0..(IF cap + 1 < avail THEN cap + 1 ELSE avail)}

\* line 145: what read() may return when asked for cap words: -1, or the
\* bytes of 0..cap whole words of what the tty still holds
ReadReturns(cap, avail) ==
    {-1} \cup {4 * k : k \in 0..(IF cap < avail THEN cap ELSE avail)}

\* line 145: n = read(...)/4; the quotient is computed in ssize_t
WordsRead(rc) == CDiv(rc, 4)

\* the rest of the buffer cleared by every read
Store_Clearing(buf, p, ws) ==
    [j \in DOMAIN buf |->
        IF j >= p /\ j < p + Len(ws) THEN ws[j - p + 1]
        ELSE IF j >= p + Len(ws) THEN 0 ELSE buf[j]]

\* line 145: read() stores the words it returns at read_ptr
Store(buf, p, ws) ==
    [j \in DOMAIN buf |->
        IF j >= p /\ j < p + Len(ws) THEN ws[j - p + 1] ELSE buf[j]]

\* line 146
ReadFailed(n) == n < 0

\* the test of line 155 left out: an empty read is handled like any other
NoData_Dropped(n) == n < 0

\* line 155
NoData(n) == n = 0

\* SOF looked for in the next slot as well
SofMissing_TwoSlots(buf, rp, st) ==
    st = "FIND_SOF" /\ At(buf, rp) # USB_SOF /\ At(buf, rp + 1) # USB_SOF

\* lines 160-163: searching, and the word at read_ptr is not SOF
SofMissing(buf, rp, st) == st = "FIND_SOF" /\ At(buf, rp) # USB_SOF

\* read_ptr += n, one past the last word written
LastWritten_OnePast(rp, n) == rp + n

\* line 169: read_ptr += n-1, the index of the last word this read wrote
LastWritten(rp, n) == rp + n - 1

\* EOF looked for in every word buffered so far
EofFound_Scan(buf, e) == \E j \in 0..e : At(buf, j) = USB_EOF

\* line 170: the last word written by this read is EOF
EofFound(buf, e) == At(buf, e) = USB_EOF

\* line 172
Overrun(e) == e >= FRAME_TOTAL_INTS

\* the warning of line 184 given only for a frame that is too long
SizeMismatch_OnlyLong(e) == (e + 1) > FRAME_TOTAL_INTS

\* line 184
SizeMismatch(e) == (e + 1) # FRAME_TOTAL_INTS

\* lines 190-196
IntervalMismatch(last, ts) ==
    /\ last # U32Zero
    /\ SubU32(ts, last) # U32Of(FRAME_INTERVAL)

\* the last timestamp kept when the interval was wrong
UpdatedLast_OnlyInTime(last, ts) == IF IntervalMismatch(last, ts) THEN last ELSE ts

\* line 197: last_frame_timestamp = (uint32_t)frame_buff[1], unconditionally
UpdatedLast(last, ts) == ts

\* line 201: (uint32_t)frame_buff[1] * 1000, a uint32_t product, then widened
FirstDataTimestamp(ts) == MulU32(ts, 1000)

\* data_timestamp kept in 32 bits
NextDataTimestamp_U32(t) == LET x == AddU64(t, Step) IN <<x[1], x[2], 0, 0>>

\* line 205: data_timestamp += Step, in uint64_t
NextDataTimestamp(t) == AddU64(t, Step)

\* read_ptr left where it was when the search starts over
Resync_KeepPtr(rp) == [read_ptr |-> rp, state |-> "FIND_SOF"]

\* lines 175-176 and 209-210: read_ptr = frame_buff; state = STATE_FIND_SOF
Resync(rp) == [read_ptr |-> 0, state |-> "FIND_SOF"]

\* the loop of line 202 run one index too far, onto the EOF word
RowsLeft_OffByOne(k) == k < FRAME_TOTAL_INTS

\* line 202: the loop runs while i < FRAME_TOTAL_INTS - 1
RowsLeft(k) == k < FRAME_TOTAL_INTS - 1

\* lines 184-197: the diagnostics of an accepted frame
AcceptDiagnostics(e, last, ts) ==
    (IF SizeMismatch(e) THEN <<"size_mismatch">> ELSE <<>>)
        \o (IF IntervalMismatch(last, ts) THEN <<"interval_mismatch">> ELSE <<>>)

\* lines 146-201 for one read that returned rc and stored the words ws
Read ==
    /\ pc = "read"
    /\ \E rc \in ReadReturns(FRAME_TOTAL_INTS - read_ptr, Len(input) - pos) :
         LET n == WordsRead(rc)
             k == IF rc > 0 THEN rc \div 4 ELSE 0
             ws == SubSeq(input, pos + 1, pos + k)
             buf == Store(frame_buff, read_ptr, ws)
             e == LastWritten(read_ptr, n)
             ts == ToU32(At(buf, 1))
         IN /\ rd' = rc
            /\ pos' = pos + k
            /\ frame_buff' = buf
            /\ IF ReadFailed(n)
               THEN \* lines 148-150; lines 151-152 follow as MainFclose, MainNull
                    /\ stderr_log' = stderr_log \o <<"read_error">>
                    /\ heap' = "freed"
                    /\ tty' = "closed"
                    /\ pc' = "fail_fclose"
                    /\ UNCHANGED <<read_ptr, state, last_frame_timestamp,
                                   data_timestamp, i>>
               ELSE IF NoData(n) \/ SofMissing(buf, read_ptr, state)
               THEN \* lines 157-158 and 163: continue
                    /\ pc' = "read"
                    /\ UNCHANGED <<read_ptr, state, last_frame_timestamp,
                                   data_timestamp, i, stderr_log, heap, tty>>
               ELSE IF ~EofFound(buf, e)
               THEN /\ IF Overrun(e)
                       THEN \* lines 174-177
                            /\ stderr_log' = stderr_log \o <<"overrun">>
                            /\ read_ptr' = Resync(e).read_ptr
                            /\ state' = Resync(e).state
                       ELSE \* lines 179-181
                            /\ read_ptr' = e + 1
                            /\ state' = "FIND_EOF"
                            /\ UNCHANGED stderr_log
                    /\ pc' = "read"
                    /\ UNCHANGED <<last_frame_timestamp, data_timestamp, i, heap,
                                   tty>>
               ELSE \* lines 184-202: the frame is accepted
                    /\ stderr_log' = stderr_log
                           \o AcceptDiagnostics(e, last_frame_timestamp, ts)
                    /\ last_frame_timestamp' = UpdatedLast(last_frame_timestamp, ts)
                    /\ data_timestamp' = FirstDataTimestamp(ts)
                    /\ i' = 2
                    /\ read_ptr' = e
                    /\ state' = "FIND_EOF"
                    /\ pc' = "emit"
                    /\ UNCHANGED <<heap, tty>>
    /\ UNCHANGED <<input, fcsv, sink, dirty, csv_header, csv, fcloses, sig,
                   exit_status>>

\* lines 204-205: one row
EmitRow ==
    /\ pc = "emit"
    /\ RowsLeft(i)
    /\ csv' = Append(csv, [timestamp |-> data_timestamp, data |-> At(frame_buff, i)])
    /\ dirty' = TRUE
    /\ data_timestamp' = NextDataTimestamp(data_timestamp)
    /\ i' = i + 1
    /\ UNCHANGED <<pc, input, pos, rd, frame_buff, read_ptr, state,
                   last_frame_timestamp, fcsv, sink, csv_header, stderr_log, tty,
                   heap, fcloses, sig, exit_status>>

\* lines 208-210, and the locals of the block go out of scope
FinishFrame ==
    /\ pc = "emit"
    /\ ~RowsLeft(i)
    /\ read_ptr' = Resync(read_ptr).read_ptr
    /\ state' = Resync(read_ptr).state
    /\ data_timestamp' = U64Zero
    /\ i' = 0
    /\ pc' = "read"
    /\ UNCHANGED <<input, pos, rd, frame_buff, last_frame_timestamp, fcsv, sink,
                   dirty, csv_header, csv, stderr_log, tty, heap, fcloses, sig,
                   exit_status>>

(***************************************************************************)
(* handle_signal, lines 35-43, run at any point after line 106.            *)
(***************************************************************************)
\* exit(sig) in place of exit(128 + sig)
SignalStatus_Raw(s) == s

\* line 42
SignalStatus(s) == 128 + s

\* what a fflush/fclose of an already closed FILE may end the process with:
\* the handler's own exit, or abort() / SIGSEGV from the C library
AfterDoubleClose(s) == {SignalStatus(s), 128 + 6, 128 + 11}

HandleSignal ==
    /\ pc # "exited"
    /\ \E s \in {SIGINT, SIGTERM} :
         /\ sig' = s
         /\ fcsv' = "NULL"
         /\ fcloses' = IF fcsv # "NULL" THEN fcloses + 1 ELSE fcloses
         /\ IF fcsv # "NULL" /\ sink = "closed"
            THEN \E st \in AfterDoubleClose(s) : Exit(st, sink)
            ELSE Exit(SignalStatus(s), sink)
    /\ UNCHANGED <<loopVars, input, csv_header, csv, stderr_log, tty, heap>>

Next ==
    \/ SetTty
    \/ SetOutputFile
    \/ StoreFcsv
    \/ Calloc
    \/ Header
    \/ Read
    \/ EmitRow
    \/ FinishFrame
    \/ MainFclose
    \/ MainNull
    \/ HandleSignal

Spec == Init /\ [][Next]_vars

(***************************************************************************)
(* What the claims speak of.                                               *)
(***************************************************************************)
Count(log, tag) == Cardinality({k \in 1..Len(log) : log[k] = tag})

RowValues(rows) == [k \in 1..Len(rows) |-> rows[k].data]

\* s holds a well-formed frame at positions at..at+FRAME_TOTAL_INTS-1
FrameAt(s, at) ==
    /\ at + FRAME_TOTAL_INTS - 1 <= Len(s)
    /\ s[at] = USB_SOF
    /\ s[at + FRAME_TOTAL_INTS - 1] = USB_EOF
    /\ \A j \in (at + 1)..(at + FRAME_TOTAL_INTS - 2) : s[j] \notin {USB_SOF, USB_EOF}

\* s is a concatenation of well-formed frames and nothing else
IsFrames(s) ==
    /\ Len(s) % FRAME_TOTAL_INTS = 0
    /\ \A m \in 0..((Len(s) \div FRAME_TOTAL_INTS) - 1) : FrameAt(s, m * FRAME_TOTAL_INTS + 1)

\* s is noise without SOF followed by exactly one well-formed frame
NoiseThenFrame(s) ==
    /\ Len(s) >= FRAME_TOTAL_INTS
    /\ \A j \in 1..(Len(s) - FRAME_TOTAL_INTS) : s[j] # USB_SOF
    /\ FrameAt(s, Len(s) - FRAME_TOTAL_INTS + 1)

\* s is SOF followed by FRAME_TOTAL_INTS or more words, none of them EOF
OverrunStream(s) ==
    /\ Len(s) > FRAME_TOTAL_INTS
    /\ s[1] = USB_SOF
    /\ \A j \in 2..Len(s) : s[j] # USB_EOF

\* the payload words of the first m frames of s, in input order
PayloadsOf(s, m) ==
    [k \in 1..(m * NData) |->
        s[((k - 1) \div NData) * FRAME_TOTAL_INTS + 3 + ((k - 1) % NData)]]

\* the interval-mismatch diagnostics this step printed
NewIntervalWarnings ==
    Count(stderr_log', "interval_mismatch") - Count(stderr_log, "interval_mismatch")

\* this step accepts a frame: Read found EOF in the last word written
Accepts == pc = "read" /\ pc' = "emit"

(***************************************************************************)
(* C1. Overrun recovery: once the tty has delivered SOF and then           *)
(* FRAME_TOTAL_INTS - 1 further words of a stream that is SOF followed by  *)
(* FRAME_TOTAL_INTS or more words without EOF, the buffer is full; the     *)
(* length-overrun diagnostic has been printed and the next read asks for   *)
(* at least one word, so the synchronizer goes on consuming.               *)
(***************************************************************************)
C1_OverrunRecovery ==
    (OverrunStream(input) /\ pc = "read" /\ pos >= FRAME_TOTAL_INTS)
        => /\ Count(stderr_log, "overrun") >= 1
           /\ read_ptr < FRAME_TOTAL_INTS

(***************************************************************************)
(* C2. Resync: when the input is noise without SOF followed by one         *)
(* well-formed frame, then however the reads split it, once all of it is   *)
(* read and processed the rows printed are that frame's payload words, in  *)
(* order, and nothing else.                                                *)
(***************************************************************************)
C2_Resync ==
    (NoiseThenFrame(input) /\ pc = "read" /\ pos = Len(input))
        => RowValues(csv) =
             [k \in 1..NData |-> input[Len(input) - FRAME_TOTAL_INTS + 2 + k]]

(***************************************************************************)
(* C3. Idempotent framing: when the input is N well-formed frames and      *)
(* nothing else, then however the reads split it (empty reads included),   *)
(* whenever the loop is about to read, the rows printed are the payload    *)
(* words of the frames read so far, in input order, NData rows a frame,    *)
(* and no length-mismatch and no overrun diagnostic was printed.           *)
(***************************************************************************)
C3_IdempotentFraming ==
    (IsFrames(input) /\ pc = "read")
        => /\ RowValues(csv) = PayloadsOf(input, pos \div FRAME_TOTAL_INTS)
           /\ Count(stderr_log, "size_mismatch") = 0
           /\ Count(stderr_log, "overrun") = 0

C3_Witness ==
    /\ IsFrames(input)
    /\ Len(input) = 2 * FRAME_TOTAL_INTS
    /\ pos = Len(input)
    /\ pc = "read"
    /\ Len(csv) = 2 * NData

(***************************************************************************)
(* C4. A failing read is fatal: after read() has returned -1 the loop is   *)
(* not entered again; main releases the buffer, the device and the sink    *)
(* and returns EXIT_FAILURE.                                               *)
(***************************************************************************)
C4_ReadErrorFatal ==
    rd = -1
        => /\ pc \in {"fail_fclose", "fail_null", "exited"}
           /\ heap = "freed"
           /\ tty = "closed"
           /\ (pc = "exited" /\ sig = 0)
                => (exit_status = EXIT_FAILURE /\ sink = "closed")

(***************************************************************************)
(* C5. Interval check: in a stream of well-formed frames, accepting a      *)
(* frame after another one prints exactly one interval-mismatch            *)
(* diagnostic when the two timestamps differ, modulo 2^32, by something    *)
(* other than FRAME_INTERVAL, and none when they differ by FRAME_INTERVAL; *)
(* the rows of every frame read are printed all the same.                  *)
(***************************************************************************)
C5_IntervalCheck ==
    /\ [](IsFrames(input) /\ pc = "read"
            => Len(csv) = NData * (pos \div FRAME_TOTAL_INTS))
    /\ [][(IsFrames(input) /\ Accepts /\ Len(csv) > 0)
            => NewIntervalWarnings =
                 IF SubU32(last_frame_timestamp', last_frame_timestamp)
                      # U32Of(FRAME_INTERVAL)
                 THEN 1 ELSE 0]_vars

(***************************************************************************)
(* C6. Timestamp interpolation law: the k-th row printed for a frame with  *)
(* timestamp T carries T * 1000 + Step * k, the product taken exactly, and *)
(* Step is 80 for the source's frame of 1253 words.                        *)
(***************************************************************************)
C6_TimestampLaw ==
    /\ SampleStep(1253) = 80
    /\ pc = "emit"
         => \A k \in 0..(i - 3) :
              csv[Len(csv) - (i - 2) + k + 1].timestamp =
                AddU64(MulExact(ToU32(frame_buff[1]), 1000), Step * k)

(***************************************************************************)
(* C7. Zero-read tolerance: a read that returns no words changes nothing   *)
(* but the value read() returned: state, fill position, buffer, last       *)
(* timestamp, rows and diagnostics stay as they were, so that a run with   *)
(* empty reads prints what the run without them prints.                    *)
(***************************************************************************)
C7_ZeroReadTolerance ==
    [][(pc = "read" /\ pc' = "read" /\ rd' = 0)
         => UNCHANGED <<state, read_ptr, frame_buff, last_frame_timestamp, pos,
                        csv_header, csv, stderr_log, sink, fcsv, exit_status>>]_vars

C7_Witness ==
    /\ pc = "read"
    /\ rd = 0
    /\ state = "FIND_EOF"
    /\ read_ptr > 0
    /\ pos < Len(input)
    /\ Len(csv) > 0

(***************************************************************************)
(* C8. Per-frame atomicity at the sink: when the process has exited, the   *)
(* sink holds all NData rows of a frame or none of them.                   *)
(***************************************************************************)
C8_FrameAtomicity ==
    pc = "exited" => Len(csv) % NData = 0

(***************************************************************************)
(* C9. Length mismatch is not fatal: when a read ends on EOF at an index   *)
(* other than FRAME_TOTAL_INTS - 1, the warning is printed, the interval   *)
(* is checked against the last timestamp, the last timestamp becomes the   *)
(* word at index 1, the words at indices 2..FRAME_TOTAL_INTS-2 are printed *)
(* in order, and the loop goes back to reading in FIND_SOF at position 0.  *)
(***************************************************************************)
C9_LengthMismatchNonFatal ==
    /\ [][(Accepts /\ read_ptr' # FRAME_TOTAL_INTS - 1)
            => /\ stderr_log' = stderr_log \o <<"size_mismatch">>
                     \o (IF /\ last_frame_timestamp # U32Zero
                            /\ SubU32(ToU32(frame_buff'[1]), last_frame_timestamp)
                                 # U32Of(FRAME_INTERVAL)
                         THEN <<"interval_mismatch">> ELSE <<>>)
               /\ last_frame_timestamp' = ToU32(frame_buff'[1])
               /\ i' = 2
               /\ exit_status' = -1]_vars
    /\ [](pc = "emit" /\ read_ptr # FRAME_TOTAL_INTS - 1
            => /\ Len(csv) >= i - 2
               /\ \A k \in 2..(i - 1) : csv[Len(csv) - i + k + 1].data = frame_buff[k])
    /\ [][(pc = "emit" /\ pc' = "read" /\ read_ptr # FRAME_TOTAL_INTS - 1)
            => /\ i = FRAME_TOTAL_INTS - 1
               /\ state' = "FIND_SOF"
               /\ read_ptr' = 0
               /\ exit_status' = -1]_vars

C9_Witness ==
    /\ pc = "read"
    /\ state = "FIND_SOF"
    /\ read_ptr = 0
    /\ Count(stderr_log, "size_mismatch") = 1
    /\ Len(csv) = NData
    /\ frame_buff[FRAME_TOTAL_INTS - 2] = USB_EOF

(***************************************************************************)
(* C10. Signal-driven termination: a SIGINT or SIGTERM delivered while the *)
(* sink is open leaves it flushed and closed, and the process exits with   *)
(* status 128 + the signal's number.                                       *)
(***************************************************************************)
C10_SignalTermination ==
    [][(sig = 0 /\ sig' # 0 /\ sink = "open")
         => /\ sig' \in {SIGINT, SIGTERM}
            /\ sink' = "closed"
            /\ ~dirty'
            /\ pc' = "exited"
            /\ exit_status' = 128 + sig']_vars

C10_Witness ==
    /\ pc = "exited"
    /\ sig = SIGTERM
    /\ exit_status = 128 + 15
    /\ sink = "closed"
    /\ fcloses = 1
    /\ Len(csv) > 0

(***************************************************************************)
(* What the later claims speak of.                                         *)
(***************************************************************************)
\* a <= b for uint64_t values
LeU64(a, b) ==
    \/ a[4] < b[4]
    \/ a[4] = b[4] /\ a[3] < b[3]
    \/ a[4] = b[4] /\ a[3] = b[3] /\ a[2] < b[2]
    \/ a[4] = b[4] /\ a[3] = b[3] /\ a[2] = b[2] /\ a[1] <= b[1]

\* while a frame is emitted: its k-th row so far, k in 1..i-2
FrameRow(k) == csv[Len(csv) - (i - 2) + k]

\* this step is a loop iteration whose read returned at least one word
NonEmptyRead == pc = "read" /\ pos' > pos

\* the words that read returned
WordsOfRead == pos' - pos

(***************************************************************************)
(* C11. Within an accepted frame the timestamp column does not decrease:   *)
(* each row's timestamp is the previous row's plus Step (80 for the        *)
(* source's frame), in 64 bits, whatever the 32-bit frame timestamp.       *)
(***************************************************************************)
C11_MonotoneTimestamps ==
    /\ SampleStep(1253) = 80
    /\ pc = "emit"
         => \A k \in 1..(i - 3) :
              /\ FrameRow(k + 1).timestamp = AddU64(FrameRow(k).timestamp, Step)
              /\ LeU64(FrameRow(k).timestamp, FrameRow(k + 1).timestamp)

\* the rows of a frame whose timestamps pass 2^32
C11_Witness ==
    /\ pc = "emit"
    /\ i = FRAME_TOTAL_INTS - 1
    /\ FrameRow(1).timestamp[3] = 0
    /\ FrameRow(i - 2).timestamp[3] = 1

(***************************************************************************)
(* C12. SOF is looked for at buffer index 0 only: a non-empty read in      *)
(* FIND_SOF whose first word is not SOF is discarded as a whole; state,    *)
(* fill position, last timestamp, rows and diagnostics stay as they were,  *)
(* also when a later word of the read is SOF.                              *)
(***************************************************************************)
C12_SofOnlyAtIndexZero ==
    [][(NonEmptyRead /\ state = "FIND_SOF" /\ input[pos + 1] # USB_SOF)
         => /\ state' = "FIND_SOF"
            /\ read_ptr' = 0
            /\ pc' = "read"
            /\ UNCHANGED <<last_frame_timestamp, csv_header, csv, stderr_log, sink,
                           dirty, fcsv>>]_vars

\* a discarded read of two words, the second of them SOF
C12_Witness ==
    /\ pc = "read"
    /\ state = "FIND_SOF"
    /\ read_ptr = 0
    /\ rd = 8
    /\ pos >= 2
    /\ input[pos - 1] # USB_SOF
    /\ input[pos] = USB_SOF
    /\ frame_buff[0] = input[pos - 1]
    /\ frame_buff[1] = USB_SOF

(***************************************************************************)
(* C13, as stated: after a read in FIND_SOF that put SOF at index 0 and    *)
(* did not complete a frame, the next read is issued in FIND_EOF at fill   *)
(* position 1, however many words the read returned.                       *)
(***************************************************************************)
C13_FillIsOne ==
    [][(NonEmptyRead /\ state = "FIND_SOF" /\ input[pos + 1] = USB_SOF /\ pc' = "read")
         => (state' = "FIND_EOF" /\ read_ptr' = 1)]_vars

(***************************************************************************)
(* C13, amended: after such a read the next read is issued in FIND_EOF at  *)
(* the fill position that equals the number of words the read returned     *)
(* (1 only when it returned a single word).                                *)
(***************************************************************************)
C13_FillIsWordsRead ==
    [][(NonEmptyRead /\ state = "FIND_SOF" /\ input[pos + 1] = USB_SOF /\ pc' = "read")
         => (state' = "FIND_EOF" /\ read_ptr' = WordsOfRead)]_vars

\* SOF and two more words arrived in the first read
C13_Witness ==
    /\ pc = "read"
    /\ state = "FIND_EOF"
    /\ rd = 12
    /\ pos = 3
    /\ read_ptr = 3
    /\ frame_buff[0] = USB_SOF

(***************************************************************************)
(* C14. EOF is looked for at the last word a read wrote only: a non-empty  *)
(* read in FIND_EOF, or one that found SOF at index 0, accepts the frame   *)
(* exactly when its last word is EOF; EOF earlier in the read does not end *)
(* the frame.                                                              *)
(***************************************************************************)
C14_EofOnlyAtLastWord ==
    [][(NonEmptyRead /\ (state = "FIND_EOF" \/ input[pos + 1] = USB_SOF))
         => (pc' = "emit" <=> input[pos'] = USB_EOF)]_vars

\* one read brought SOF, a timestamp, EOF and one more word: still accumulating
C14_Witness ==
    /\ pc = "read"
    /\ state = "FIND_EOF"
    /\ rd = 4 * read_ptr
    /\ pos = read_ptr
    /\ read_ptr >= 4
    /\ frame_buff[2] = USB_EOF
    /\ frame_buff[read_ptr - 1] # USB_EOF

(***************************************************************************)
(* C15. Whenever a read is issued in FIND_SOF the fill position is 0.      *)
(***************************************************************************)
C15_SearchStartsAtZero ==
    (pc = "read" /\ state = "FIND_SOF") => read_ptr = 0

\* back to searching after an accepted frame
C15_Witness ==
    /\ pc = "read"
    /\ state = "FIND_SOF"
    /\ read_ptr = 0
    /\ Len(csv) >= NData
    /\ frame_buff[0] = USB_SOF

(***************************************************************************)
(* C16. Buffer bounds: the fill position stays in 0..FRAME_TOTAL_INTS, a   *)
(* read returns no more words than FRAME_TOTAL_INTS minus the fill         *)
(* position, and every index written or inspected (index 0 when searching, *)
(* the last word written, index 1 and the row indices of an accepted       *)
(* frame) lies in 0..FRAME_TOTAL_INTS-1.                                   *)
(***************************************************************************)
C16_BufferBounds ==
    /\ [](/\ read_ptr \in 0..FRAME_TOTAL_INTS
          /\ DOMAIN frame_buff = 0..(FRAME_TOTAL_INTS - 1)
          /\ pc = "emit" => /\ read_ptr \in 1..(FRAME_TOTAL_INTS - 1)
                            /\ i \in 2..(FRAME_TOTAL_INTS - 1))
    /\ [][NonEmptyRead
            => /\ rd' = 4 * WordsOfRead
               /\ read_ptr + WordsOfRead <= FRAME_TOTAL_INTS
               /\ LastWritten(read_ptr, WordsOfRead) \in 0..(FRAME_TOTAL_INTS - 1)
               /\ state = "FIND_SOF" => read_ptr \in 0..(FRAME_TOTAL_INTS - 1)]_vars
    /\ [][(pc = "emit" /\ Len(csv') > Len(csv))
            => i \in 2..(FRAME_TOTAL_INTS - 2)]_vars

\* the buffer is full and the next read asks for no word at all
C16_Witness ==
    /\ pc = "read"
    /\ state = "FIND_EOF"
    /\ read_ptr = FRAME_TOTAL_INTS
    /\ rd = 4
    /\ frame_buff[FRAME_TOTAL_INTS - 1] = input[pos]

(***************************************************************************)
(* C17. The last-frame timestamp changes only in the step that accepts a   *)
(* frame, and that step sets it to the word at index 1, with or without a  *)
(* length-mismatch or interval-mismatch diagnostic; empty reads, discarded *)
(* reads, accumulating reads and row output leave it as it was.            *)
(***************************************************************************)
C17_LastTimestampUpdate ==
    /\ [][last_frame_timestamp' # last_frame_timestamp => Accepts]_vars
    /\ [][Accepts => last_frame_timestamp' = ToU32(frame_buff'[1])]_vars

\* a frame accepted with both warnings, its timestamp taken all the same
C17_Witness ==
    /\ pc = "emit"
    /\ Count(stderr_log, "size_mismatch") = 1
    /\ Count(stderr_log, "interval_mismatch") = 1
    /\ Len(csv) >= NData
    /\ last_frame_timestamp = ToU32(frame_buff[1])
    /\ last_frame_timestamp # U32Zero

(***************************************************************************)
(* C18, as stated: an accepted frame prints exactly NData rows, the buffer *)
(* words at indices 2..FRAME_TOTAL_INTS-2 in index order as they are when  *)
(* the frame is accepted; when EOF was found early, the rows for the       *)
(* indices at or beyond the EOF index carry words that were in the buffer  *)
(* before, not words this frame brought.                                   *)
(***************************************************************************)
\* the rows printed for the frame being left are the buffer's payload slots
RowsAreBufferWords ==
    /\ [][(pc = "emit" /\ pc' = "read")
            => /\ i = FRAME_TOTAL_INTS - 1
               /\ Len(csv) >= NData
               /\ \A k \in 1..NData : FrameRow(k).data = frame_buff[k + 1]]_vars
    /\ [][pc = "emit" => frame_buff' = frame_buff]_vars
    /\ [][Accepts => Len(csv') = Len(csv)]_vars
    /\ [](pc = "emit" => Len(csv) % NData = (i - 2) % NData)
    /\ [](pc = "read" => Len(csv) % NData = 0)

\* a read writes the slots it fills and no other
ReadWritesOnlyItsSlots ==
    [][pc = "read"
         => \A j \in DOMAIN frame_buff :
              (j < read_ptr \/ j >= read_ptr + WordsOfRead)
                 => frame_buff'[j] = frame_buff[j]]_vars

C18_StaleFromEofIndex ==
    /\ RowsAreBufferWords
    /\ ReadWritesOnlyItsSlots
    /\ [][(Accepts /\ read_ptr' # FRAME_TOTAL_INTS - 1)
            => \A j \in 2..(FRAME_TOTAL_INTS - 2) :
                 j >= read_ptr' => frame_buff'[j] = frame_buff[j]]_vars

(***************************************************************************)
(* C18, amended: as above, but the rows that carry words left from before  *)
(* are those for the indices beyond the EOF index; the row for the EOF     *)
(* index itself, when it is a payload index, carries this frame's EOF      *)
(* word.                                                                   *)
(***************************************************************************)
C18_StaleBeyondEofIndex ==
    /\ RowsAreBufferWords
    /\ ReadWritesOnlyItsSlots
    /\ [][(Accepts /\ read_ptr' # FRAME_TOTAL_INTS - 1)
            => /\ \A j \in 2..(FRAME_TOTAL_INTS - 2) :
                    j > read_ptr' => frame_buff'[j] = frame_buff[j]
               /\ frame_buff'[read_ptr'] = USB_EOF
               /\ frame_buff'[read_ptr'] = input[pos']]_vars

\* a frame cut short at index 2 after a full frame: its last row repeats the
\* last payload word of the frame before
C18_Witness ==
    /\ pc = "read"
    /\ Len(csv) = 2 * NData
    /\ Count(stderr_log, "size_mismatch") = 1
    /\ csv[NData + 1].data = USB_EOF
    /\ csv[2 * NData].data = csv[NData].data
    /\ csv[NData].data \notin {0, USB_EOF, USB_SOF}

(***************************************************************************)
(* C19. The sink is closed at most once: whichever way main exits and      *)
(* wherever a signal arrives, fclose() is called on the sink once at most. *)
(***************************************************************************)
C19_ClosedAtMostOnce == fcloses <= 1

====
